---- MODULE Spec2Model ----
(***************************************************************************)
(* CodeMerger: the App component's ordered file store, the ingestion       *)
(* pipeline (processFiles) with its suspension points, and the FileList    *)
(* component's selection state.                                            *)
(*                                                                         *)
(* Strings that the code inspects (names, paths, contents) are sequences   *)
(* of one-character strings, so that endsWith, includes, toLowerCase and   *)
(* split are computed and not assumed.  Store indices are 0-based as in    *)
(* the source; TLA+ sequences are 1-based, hence the "+ 1" in accesses.    *)
(***************************************************************************)
EXTENDS Integers, Sequences, FiniteSets, TLC

VARIABLES
    filesData,        \* App.tsx:16   the ordered file store
    isProcessing,     \* App.tsx:17   the processing-in-flight flag
    inv,              \* App.tsx:35   the processFiles invocations in flight
    selectedIndices,  \* FileList (part_000:32) selection set
    viewMode,         \* FileList (part_000:26) 'list' | 'tree'
    draggedIndex,     \* FileList (part_000:27) index being dragged or NoIndex
    headerTemplate,   \* App.tsx:18   the header template
    last              \* history: the operation that produced this state

vars == <<filesData, isProcessing, inv, selectedIndices, viewMode, draggedIndex,
          headerTemplate, last>>

----------------------------------------------------------------------------
(* Bounds *)

MaxStore == 2      \* an ingestion starts only if its records will fit
MaxBatch == 2      \* blobs per upload
MaxInv   == 2      \* invocation slots (overlapping processFiles calls)

NoIndex == -1      \* draggedIndex === null

----------------------------------------------------------------------------
(* String helpers *)

LowerChar(c) ==
    CASE c = "S" -> "s" [] c = "Z" -> "z" [] c = "I" -> "i" [] c = "P" -> "p"
      [] c = "M" -> "m" [] c = "A" -> "a" [] c = "C" -> "c" [] c = "O" -> "o"
      [] c = "X" -> "x" [] c = "D" -> "d" [] c = "E" -> "e" [] c = "F" -> "f"
      [] OTHER -> c

toLowerCase(s) == [n \in 1..Len(s) |-> LowerChar(s[n])]

endsWith(s, suf) ==
    /\ Len(s) >= Len(suf)
    /\ SubSeq(s, Len(s) - Len(suf) + 1, Len(s)) = suf

includes(s, sub) ==
    \E n \in 1..(Len(s) - Len(sub) + 1) : SubSeq(s, n, n + Len(sub) - 1) = sub

DotZip   == <<".", "z", "i", "p">>
MacOsx   == <<"_", "_", "M", "A", "C", "O", "S", "X">>
DsStore  == <<".", "D", "S", "_", "S", "t", "o", "r", "e">>

ErrZipEntry == <<"[", "E", "r", "r", "o", "r", " ", "r", "e", "a", "d", "i", "n", "g", " ", "f", "i", "l", "e", " ", "c", "o", "n", "t", "e", "n", "t", " ", "i", "n", "s", "i", "d", "e", " ", "z", "i", "p", "]">>
ErrUnzip    == <<"[", "E", "r", "r", "o", "r", ":", " ", "F", "a", "i", "l", "e", "d", " ", "t", "o", " ", "u", "n", "z", "i", "p", " ", "f", "i", "l", "e", "]">>
ErrRead     == <<"[", "E", "r", "r", "o", "r", " ", "r", "e", "a", "d", "i", "n", "g", " ", "f", "i", "l", "e", "]">>

----------------------------------------------------------------------------
(* Uploaded blobs.  A blob is what processFiles sees of one element of the  *)
(* batch: its name and declared type, and what the environment will answer *)
(* when the blob is read or opened:                                        *)
(*   bad      reading element.name throws (the element is not a File)      *)
(*   ok       readAsText succeeds / loadAsync succeeds                     *)
(*   content  the text readAsText yields                                   *)
(*   entries  loadedZip.files in Object.entries order:                     *)
(*            [path, dir, ok, content]                                     *)

Entry(path, dir, ok, content) ==
    [path |-> path, dir |-> dir, ok |-> ok, content |-> content]

Blob(name, type, bad, ok, content, entries) ==
    [name |-> name, type |-> type, bad |-> bad, ok |-> ok,
     content |-> content, entries |-> entries]

ArchiveEntries ==
    << Entry(<<"a", "/">>, TRUE, TRUE, <<>>),
       Entry(<<"a", "/", "c">>, FALSE, FALSE, <<>>),
       Entry(<<"_", "_", "M", "A", "C", "O", "S", "X", "/", "x">>, FALSE, TRUE, <<"9">>),
       Entry(<<"a", "/", "b">>, FALSE, TRUE, <<"1">>) >>

PlainOk    == Blob(<<"z">>, "text/plain", FALSE, TRUE, <<"2">>, <<>>)
PlainFail  == Blob(<<"y">>, "text/plain", FALSE, FALSE, <<>>, <<>>)
ZipOk      == Blob(<<"S", ".", "Z", "I", "P">>, "", FALSE, TRUE, <<>>, ArchiveEntries)
ZipCorrupt == Blob(<<"w">>, "application/zip", FALSE, FALSE, <<>>, <<>>)
NotAFile   == Blob(<<>>, "", TRUE, FALSE, <<>>, <<>>)

\* Blobs for the classification: a plain name, the extension in upper case,
\* the extension without its dot, the extension not at the end; a type that
\* is no zip type, the two zip types, a type that only resembles them.
ClassNames ==
    {<<"z">>, <<"S", ".", "Z", "I", "P">>, <<"z", "i", "p">>, <<".", "z", "i", "p", "x">>}

ClassTypes ==
    {"text/plain", "application/zip", "application/x-zip-compressed", "application/x-zip"}

\* Every name with every type, readable and opening; one archive that does
\* not open and one plain file that cannot be read.
ClassBlobs ==
    {Blob(name, type, FALSE, TRUE, <<"2">>, <<ArchiveEntries[4]>>) :
        name \in ClassNames, type \in ClassTypes}
    \cup {Blob(<<"z">>, "application/zip", FALSE, FALSE, <<>>, <<>>),
          Blob(<<"z", "i", "p">>, "application/x-zip", FALSE, FALSE, <<>>, <<>>)}

MaxEntries == 3

\* Entries for the filter: a directory, a file in it, a file under the
\* __MACOSX folder, a .DS_Store file in a folder, a file that cannot be
\* decoded, a file whose name only contains .DS_Store.
FilterEntries ==
    {Entry(<<"a", "/">>, TRUE, TRUE, <<>>),
     Entry(<<"a", "/", "b">>, FALSE, TRUE, <<"1">>),
     Entry(<<"_", "_", "M", "A", "C", "O", "S", "X", "/", "x">>, FALSE, TRUE, <<"9">>),
     Entry(<<"a", "/", ".", "D", "S", "_", "S", "t", "o", "r", "e">>, FALSE, TRUE, <<"9">>),
     Entry(<<"c">>, FALSE, FALSE, <<>>),
     Entry(<<"b", ".", "D", "S", "_", "S", "t", "o", "r", "e">>, FALSE, TRUE, <<"2">>)}

\* loadedZip.files is an object keyed by path: no path twice.
EntryLists ==
    {entries \in UNION {[1..n -> FilterEntries] : n \in 1..MaxEntries} :
        \A m, n \in 1..Len(entries) : m # n => entries[m] # entries[n]}

ArchiveBlobs ==
    {Blob(<<"S", ".", "Z", "I", "P">>, "", FALSE, TRUE, <<>>, entries) :
        entries \in EntryLists}

Blobs == {PlainOk, PlainFail, ZipOk, ZipCorrupt, NotAFile}

\* The uploads of the application runs: a plain file, an archive that
\* opens, an archive that does not, and an element that makes the batch
\* fail as a whole.
Batches == UNION {[1..n -> {PlainOk, ZipOk, ZipCorrupt, NotAFile}] : n \in 1..MaxBatch}

----------------------------------------------------------------------------
(* processFiles, piece by piece *)

\* Mutant: the extension is compared as it is written.
IsZipCaseSensitive(file) ==
    \/ endsWith(file.name, DotZip)
    \/ file.type = "application/zip"
    \/ file.type = "application/x-zip-compressed"

\* App.tsx:44
IsZip(file) ==
    \/ endsWith(toLowerCase(file.name), DotZip)
    \/ file.type = "application/zip"
    \/ file.type = "application/x-zip-compressed"

\* Mutant: only directories are passed over.
SkipEntryDirectoriesOnly(entry) == entry.dir

\* App.tsx:55-58  the entries the loop passes over with `continue`
SkipEntry(entry) ==
    \/ entry.dir
    \/ includes(entry.path, MacOsx)
    \/ includes(entry.path, DsStore)

\* Mutant: unshift instead of push.
PushInFront(list, record) == <<record>> \o list

\* newFilesList.push(record)
Push(list, record) == Append(list, record)

FileData(name, content) == [name |-> name, content |-> content]

\* Mutant: the failing entry's record is pushed without its path.
EntryRecordLosingPath(entry) ==
    IF entry.ok THEN FileData(entry.path, entry.content)
                ELSE FileData(<<>>, ErrZipEntry)

\* App.tsx:60-73
EntryRecord(entry) ==
    IF entry.ok THEN FileData(entry.path, entry.content)
                ELSE FileData(entry.path, ErrZipEntry)

\* Mutant: the placeholder record is named after nothing.
UnzipFailedRecordUnnamed(file) == FileData(<<>>, ErrUnzip)

\* App.tsx:75-80
UnzipFailedRecord(file) == FileData(file.name, ErrUnzip)

\* App.tsx:84-99
PlainRecord(file) ==
    IF file.ok THEN FileData(file.name, file.content)
               ELSE FileData(file.name, ErrRead)

\* Mutants of the append: the batch replaces the store / goes in front of it.
AppendFilesReplacing(prevFiles, newFilesList) == newFilesList

AppendFilesInFront(prevFiles, newFilesList) == newFilesList \o prevFiles

\* App.tsx:103-106
AppendFiles(prevFiles, newFilesList) == prevFiles \o newFilesList

\* The number of records a blob contributes; used only to keep the store
\* within MaxStore.
Yield(file) ==
    IF file.bad THEN 0
    ELSE IF IsZip(file) /\ file.ok
         THEN Cardinality({n \in 1..Len(file.entries) : ~SkipEntry(file.entries[n])})
         ELSE 1

\* The yields of the blobs of the application runs, computed once.
YieldOf == [file \in Blobs |-> Yield(file)]

RECURSIVE SumYield(_)
SumYield(files) ==
    IF files = <<>> THEN 0
    ELSE (IF Head(files) \in Blobs THEN YieldOf[Head(files)] ELSE Yield(Head(files)))
         + SumYield(Tail(files))

----------------------------------------------------------------------------
(* Invocation slots *)

Slots == 1..MaxInv

Idle == [pc |-> "idle", files |-> <<>>, i |-> 0, j |-> 0, list |-> <<>>]

InFlight(k) == inv[k].pc # "idle"

RECURSIVE PendingUpTo(_)
PendingUpTo(k) ==
    IF k = 0 THEN 0 ELSE SumYield(inv[k].files) + PendingUpTo(k - 1)

\* The first entry at or after position j that the loop does not skip,
\* Len(entries) + 1 when there is none.
RECURSIVE NextEntry(_, _)
NextEntry(entries, j) ==
    IF j > Len(entries) THEN j
    ELSE IF SkipEntry(entries[j]) THEN NextEntry(entries, j + 1)
    ELSE j

At(pc, i, j, list) == [pc |-> pc, i |-> i, j |-> j, list |-> list]

\* Mutant: the store is written inside the loop, after the first blob.
NextBlobAppendingEarly(files, i, list) ==
    IF i > 1 THEN At("append", i, 0, list)
    ELSE IF files[i].bad THEN At("throw", i, 0, list)
    ELSE IF IsZip(files[i]) THEN At("load", i, 0, list)
    ELSE At("read", i, 0, list)

\* App.tsx:42-47, 82-93, 103: top of the for-of iteration for blob i, run
\* up to the next await (or to the end of the function).
NextBlob(files, i, list) ==
    IF i > Len(files) THEN At("append", i, 0, list)
    ELSE IF files[i].bad THEN At("throw", i, 0, list)
    ELSE IF IsZip(files[i]) THEN At("load", i, 0, list)
    ELSE At("read", i, 0, list)

\* App.tsx:50-62: the entries loop from position j, run up to the next await.
NextInZip(files, i, j, list) ==
    LET n == NextEntry(files[i].entries, j)
    IN  IF n <= Len(files[i].entries) THEN At("entry", i, n, list)
        ELSE NextBlob(files, i + 1, list)

----------------------------------------------------------------------------
(* The FileList component: mounted by App only while there is something to *)
(* show and nothing is being processed (App.tsx:226).  Its state is lost   *)
(* on unmount and starts from the useState initial values on mount; while  *)
(* it stays mounted a new files array runs the reset effect                *)
(* (part_000:35-37).                                                       *)

Mounted(processing, files) == ~processing /\ Len(files) > 0

Indices(files) == 0..(Len(files) - 1)

\* Mutant: no reset effect on a new files array.
FileListAfterKeepingSelection(files, processing, filesChanged) ==
    IF Mounted(isProcessing, filesData) /\ Mounted(processing, files)
    THEN UNCHANGED <<selectedIndices, viewMode, draggedIndex>>
    ELSE /\ selectedIndices' = {}
         /\ viewMode' = "list"
         /\ draggedIndex' = NoIndex

FileListAfter(files, processing, filesChanged) ==
    IF Mounted(isProcessing, filesData) /\ Mounted(processing, files)
    THEN /\ selectedIndices' = IF filesChanged THEN {} ELSE selectedIndices
         /\ viewMode' = viewMode
         /\ draggedIndex' = draggedIndex
    ELSE /\ selectedIndices' = {}
         /\ viewMode' = "list"
         /\ draggedIndex' = NoIndex

\* While a row is being dragged the browser delivers no other input events,
\* so clicks, pastes and file drops happen only with no drag in progress.
NotDragging == draggedIndex = NoIndex

\* History of the step that led here: the operation, the store length
\* before it, the records the invocation had assembled (for the ways an
\* invocation ends) and whether anything was selected before it.
\* A handler of the store also leaves the store it was called on and its
\* arguments.  A drag begun right after a reorder keeps what that reorder
\* left, and `undo` tells the reorder that is then called with the same
\* arguments exchanged.  A toggle leaves, as from and to, how many of the
\* node's leaf indices were selected and how many the node has.
History(op, n, batch, sel, prev, from, to, undo) ==
    [op |-> op, n |-> n, batch |-> batch, sel |-> sel,
     prev |-> prev, from |-> from, to |-> to, undo |-> undo]

Did(op, n, batch, sel) == History(op, n, batch, sel, <<>>, NoIndex, NoIndex, FALSE)

\* The history after a step that neither writes the store nor ends an
\* invocation.
Nothing == Did("none", 0, <<>>, FALSE)

----------------------------------------------------------------------------
(* Ingestion *)

\* Mutant: the append sits in the finally block.
StoreAfterAppendingInFinally(prevFiles, o) == AppendFiles(prevFiles, o.list)

\* App.tsx:103-113: the store after the run has reached `o`; only the end
\* of the try block writes it, the catch and finally blocks do not.
StoreAfter(prevFiles, o) ==
    IF o.pc = "append" THEN AppendFiles(prevFiles, o.list) ELSE prevFiles

\* Mutant: the flag is reset at the end of the try block, not in finally.
FlagAtEndOfTry(o) == o.pc # "append"

\* App.tsx:111-113: finally, after the append and after the catch alike
FlagAtEnd(o) == FALSE

\* Mutant: the store is read from the closure of processFiles, which
\* useCallback with no dependencies (App.tsx:114) keeps from the first render.
PrevFilesOfTheClosure(current) == <<>>

\* App.tsx:103: setFilesData is given a function, which React calls with
\* the store as it is when the update is applied.
PrevFiles(current) == current

\* What slot k does once its synchronous run has reached `o`; `first` tells
\* the run from the call apart from a continuation after an await.
Reach(k, files, o, first) ==
    IF o.pc \in {"append", "throw"} THEN
        \* App.tsx:103-106 or 108-110, then 112
        /\ filesData' = StoreAfter(PrevFiles(filesData), o)
        /\ isProcessing' = FlagAtEnd(o)
        /\ inv' = [inv EXCEPT ![k] = Idle]
        /\ FileListAfter(filesData', isProcessing', o.pc = "append")
        /\ UNCHANGED headerTemplate
        /\ last' = Did(IF o.pc = "append" THEN "append"
                       ELSE IF o.i = 0 THEN "enumerationThrew" ELSE "catastrophe",
                       Len(filesData), o.list, selectedIndices # {})
    ELSE
        /\ inv' = [inv EXCEPT ![k] =
                     [pc |-> o.pc, files |-> files, i |-> o.i, j |-> o.j, list |-> o.list]]
        /\ isProcessing' = IF first THEN TRUE ELSE isProcessing
        /\ filesData' = filesData
        /\ FileListAfter(filesData, isProcessing', FALSE)
        /\ UNCHANGED headerTemplate
        /\ last' = Nothing

FreeSlot(k) == ~InFlight(k) /\ \A h \in 1..(k - 1) : InFlight(h)

\* App.tsx:35-47 / 82-93: processFiles from its call to its first await,
\* started only if the store will stay within `cap` records.
Begin(k, files, cap) ==
    /\ FreeSlot(k)
    /\ NotDragging
    /\ Len(filesData) + PendingUpTo(MaxInv) + SumYield(files) <= cap
    /\ Reach(k, files, NextBlob(files, 1, <<>>), TRUE)

\* FileList.tsx:154-158: the picker; its input is disabled while processing
\* (FileList.tsx:202, 215).
HandleChange(k, files) == ~isProcessing /\ Begin(k, files, MaxStore)

\* FileList.tsx:160-180: paste returns early while processing.
HandlePaste(k, files) == ~isProcessing /\ Begin(k, files, MaxStore)

\* FileList.tsx:145-152: a drop on the uploader; isProcessing is not read.
HandleDropFiles(k, files) == Begin(k, files, MaxStore)

\* App.tsx:40, 108-113: Array.from(files) throws; the flag goes up and down
\* in the same synchronous run.
EnumerationThrows(k) ==
    /\ FreeSlot(k)
    /\ NotDragging
    /\ Reach(k, <<>>, At("throw", 0, 0, <<>>), TRUE)

\* App.tsx:47-50: zip.loadAsync(file) resolves.
LoadResolved(k) ==
    LET s == inv[k] IN
    /\ s.pc = "load"
    /\ s.files[s.i].ok
    /\ Reach(k, s.files, NextInZip(s.files, s.i, 1, s.list), FALSE)

\* App.tsx:75-81: zip.loadAsync(file) rejects.
LoadRejected(k) ==
    LET s == inv[k] IN
    /\ s.pc = "load"
    /\ ~s.files[s.i].ok
    /\ Reach(k, s.files,
             NextBlob(s.files, s.i + 1, Push(s.list, UnzipFailedRecord(s.files[s.i]))),
             FALSE)

\* App.tsx:62-73: entry.async("string") settles, either way one record.
EntrySettled(k) ==
    LET s == inv[k] IN
    /\ s.pc = "entry"
    /\ Reach(k, s.files,
             NextInZip(s.files, s.i, s.j + 1,
                       Push(s.list, EntryRecord(s.files[s.i].entries[s.j]))),
             FALSE)

\* App.tsx:85-99: the FileReader promise settles, either way one record.
ReadSettled(k) ==
    LET s == inv[k] IN
    /\ s.pc = "read"
    /\ Reach(k, s.files,
             NextBlob(s.files, s.i + 1, Push(s.list, PlainRecord(s.files[s.i]))),
             FALSE)

----------------------------------------------------------------------------
(* Store operations (App.tsx:116-159), called from FileList and ResultViewer *)

\* App.tsx:120-127
MovedUp(prev, index) ==
    [prev EXCEPT ![index] = prev[index + 1], ![index + 1] = prev[index]]

\* Mutant: the lower record is overwritten instead of exchanged.
MovedDownOverwriting(prev, index) ==
    [prev EXCEPT ![index + 2] = prev[index + 1]]

\* App.tsx:129-136
MovedDown(prev, index) ==
    [prev EXCEPT ![index + 2] = prev[index + 1], ![index + 1] = prev[index + 2]]

\* Array.prototype.filter on the index
RECURSIVE FilterIndex(_, _, _)
FilterIndex(prev, drop, n) ==
    IF n = 0 THEN <<>>
    ELSE IF (n - 1) \in drop THEN FilterIndex(prev, drop, n - 1)
    ELSE Append(FilterIndex(prev, drop, n - 1), prev[n])

\* Mutant: the record after the one asked for is dropped.
RemovedNext(prev, index) == FilterIndex(prev, {index + 1}, Len(prev))

\* App.tsx:147-149
Removed(prev, index) == FilterIndex(prev, {index}, Len(prev))

\* Mutant: the listed indices are removed one after the other, each against
\* the store the removal before it left.
RECURSIVE RemovedInTurn(_, _)
RemovedInTurn(prev, indices) ==
    IF indices = <<>> THEN prev
    ELSE RemovedInTurn(FilterIndex(prev, {Head(indices)}, Len(prev)), Tail(indices))

RemovedMultipleOneByOne(prev, indices) == RemovedInTurn(prev, indices)

\* App.tsx:151-159: `indices` is an array, made a Set before the filter
RemovedMultiple(prev, indices) ==
    LET indicesSet == {indices[n] : n \in 1..Len(indices)}
    IN  FilterIndex(prev, indicesSet, Len(prev))

\* Mutant: toIndex is read against the sequence before the removal.
ReorderedBeforeTarget(prev, fromIndex, toIndex) ==
    LET movedItem == prev[fromIndex + 1]
        rest == SubSeq(prev, 1, fromIndex) \o SubSeq(prev, fromIndex + 2, Len(prev))
        at == IF fromIndex < toIndex THEN toIndex - 1 ELSE toIndex
    IN  SubSeq(rest, 1, at) \o <<movedItem>> \o SubSeq(rest, at + 1, Len(rest))

\* Mutant: the record is put back one place after toIndex.
ReorderedAfterTarget(prev, fromIndex, toIndex) ==
    LET movedItem == prev[fromIndex + 1]
        rest == SubSeq(prev, 1, fromIndex) \o SubSeq(prev, fromIndex + 2, Len(prev))
        at == IF toIndex + 1 > Len(rest) THEN Len(rest) ELSE toIndex + 1
    IN  SubSeq(rest, 1, at) \o <<movedItem>> \o SubSeq(rest, at + 1, Len(rest))

\* App.tsx:138-145: splice(fromIndex, 1) then splice(toIndex, 0, movedItem)
Reordered(prev, fromIndex, toIndex) ==
    LET movedItem == prev[fromIndex + 1]
        rest == SubSeq(prev, 1, fromIndex) \o SubSeq(prev, fromIndex + 2, Len(prev))
        at == IF toIndex > Len(rest) THEN Len(rest) ELSE toIndex
    IN  SubSeq(rest, 1, at) \o <<movedItem>> \o SubSeq(rest, at + 1, Len(rest))

\* A setFilesData issued by a FileList or ResultViewer handler.
SetFilesData(files, op, from, to) ==
    /\ filesData' = files
    /\ FileListAfter(files, isProcessing, TRUE)
    /\ last' = History(op, Len(filesData), <<>>, selectedIndices # {},
                       IF from = NoIndex THEN <<>> ELSE filesData,
                       from, to, FALSE)
    /\ UNCHANGED <<isProcessing, inv, headerTemplate>>

\* A handler that returns before it calls setFilesData (App.tsx:121, 130).
Returned(op, index) ==
    /\ last' = History(op, Len(filesData), <<>>, selectedIndices # {}, filesData,
                       index, NoIndex, FALSE)
    /\ UNCHANGED <<filesData, isProcessing, inv, selectedIndices, viewMode, draggedIndex,
                   headerTemplate>>

NoChange ==
    /\ last' = Nothing
    /\ UNCHANGED <<filesData, isProcessing, inv, selectedIndices, viewMode, draggedIndex,
                   headerTemplate>>

ListShown == Mounted(isProcessing, filesData) /\ viewMode = "list"
TreeShown == Mounted(isProcessing, filesData) /\ viewMode = "tree"

\* part_000:338, 347: the arrow buttons of the first and of the last row
\* are disabled.
CanMoveUp(index) == index # 0
CanMoveDown(index) == index # Len(filesData) - 1

\* Mutant: the first row, moved up, goes to the end.
MoveUpWrapping(index) ==
    /\ ListShown
    /\ NotDragging
    /\ index \in Indices(filesData)
    /\ IF index = 0
       THEN SetFilesData(Tail(filesData) \o <<Head(filesData)>>, "moveUp", index, NoIndex)
       ELSE SetFilesData(MovedUp(filesData, index), "moveUp", index, NoIndex)

\* App.tsx:120-127
MoveUp(index) ==
    /\ ListShown
    /\ NotDragging
    /\ index \in Indices(filesData)
    /\ IF index = 0 THEN Returned("moveUpReturned", index)
       ELSE SetFilesData(MovedUp(filesData, index), "moveUp", index, NoIndex)

\* App.tsx:129-136
MoveDown(index) ==
    /\ ListShown
    /\ NotDragging
    /\ index \in Indices(filesData)
    /\ IF index = Len(filesData) - 1 THEN Returned("moveDownReturned", index)
       ELSE SetFilesData(MovedDown(filesData, index), "moveDown", index, NoIndex)

\* App.tsx:147-149
Remove(index) ==
    /\ ListShown
    /\ NotDragging
    /\ index \in Indices(filesData)
    /\ SetFilesData(Removed(filesData, index), "remove", index, NoIndex)

\* part_000:42-46
DragStart(index) ==
    /\ ListShown
    /\ NotDragging
    /\ index \in Indices(filesData)
    /\ draggedIndex' = index
    /\ last' = IF last.op = "reorder"
               THEN History("dragStart", last.n, <<>>, FALSE, last.prev,
                            last.from, last.to, FALSE)
               ELSE Nothing
    /\ UNCHANGED <<filesData, isProcessing, inv, selectedIndices, viewMode, headerTemplate>>

\* part_000:54-61 and App.tsx:138-145
Drop(index) ==
    /\ ListShown
    /\ index \in Indices(filesData)
    /\ draggedIndex # NoIndex
    /\ IF draggedIndex # index
       THEN /\ filesData' = Reordered(filesData, draggedIndex, index)
            /\ selectedIndices' = {}
       ELSE UNCHANGED <<filesData, selectedIndices>>
    /\ draggedIndex' = NoIndex
    /\ last' = IF draggedIndex # index
               THEN History("reorder", Len(filesData), <<>>, selectedIndices # {},
                            filesData, draggedIndex, index,
                            /\ last.op = "dragStart"
                            /\ draggedIndex = last.to
                            /\ index = last.from)
               ELSE Nothing
    /\ UNCHANGED <<isProcessing, inv, viewMode, headerTemplate>>

\* part_000:63-66
DragEnd ==
    /\ Mounted(isProcessing, filesData)
    /\ draggedIndex # NoIndex
    /\ draggedIndex' = NoIndex
    /\ last' = Nothing
    /\ UNCHANGED <<filesData, isProcessing, inv, selectedIndices, viewMode, headerTemplate>>

\* part_000:258, 267
SetViewMode(mode) ==
    /\ Mounted(isProcessing, filesData)
    /\ NotDragging
    /\ mode # viewMode
    /\ viewMode' = mode
    /\ last' = Nothing
    /\ UNCHANGED <<filesData, isProcessing, inv, selectedIndices, draggedIndex, headerTemplate>>

\* Array.from(selectedIndices): the members in the order they were added,
\* which the toggles before decide; any order can come.
ArraysFrom(set) ==
    {indices \in [1..Cardinality(set) -> set] :
        \A n, m \in 1..Cardinality(set) : n # m => indices[n] # indices[m]}

\* part_000:278: the batch-delete button is on the screen
CanDeleteSelected == selectedIndices # {}

\* Mutant: the records are removed whatever the prompt answers.
DeleteSelectedUnasked(confirmed, indicesToRemove) ==
    /\ TreeShown
    /\ NotDragging
    /\ indicesToRemove \in ArraysFrom(selectedIndices)
    /\ IF selectedIndices # {}
       THEN SetFilesData(RemovedMultiple(filesData, indicesToRemove), "removeMany",
                         NoIndex, NoIndex)
       ELSE NoChange

\* part_000:163-173 and App.tsx:151-159
DeleteSelected(confirmed, indicesToRemove) ==
    /\ TreeShown
    /\ NotDragging
    /\ indicesToRemove \in ArraysFrom(selectedIndices)
    /\ IF selectedIndices # {} /\ confirmed
       THEN SetFilesData(RemovedMultiple(filesData, indicesToRemove), "removeMany",
                         NoIndex, NoIndex)
       ELSE NoChange

\* App.tsx:116-118, shown by App.tsx:242-248
Clear ==
    /\ Mounted(isProcessing, filesData)
    /\ NotDragging
    /\ SetFilesData(<<>>, "clear", NoIndex, NoIndex)

----------------------------------------------------------------------------
(* Tree view (part_000:71-160) *)

Undefined == -2    \* fileIndex of a folder node

\* String.prototype.split('/')
RECURSIVE split(_)
split(s) ==
    LET slashes == {n \in 1..Len(s) : s[n] = "/"}
    IN  IF slashes = {} THEN <<s>>
        ELSE LET p == CHOOSE n \in slashes : \A m \in slashes : n <= m
             IN  <<SubSeq(s, 1, p - 1)>> \o split(SubSeq(s, p + 1, Len(s)))

\* localeCompare on the characters that occur in record names here:
\* punctuation before digits before lower-case letters, shorter prefix first.
Alphabet == <<"_", ".", "1", "2", "9", "a", "b", "c", "t", "w", "x", "y", "z">>

CharRank(c) ==
    IF \E n \in 1..Len(Alphabet) : Alphabet[n] = c
    THEN CHOOSE n \in 1..Len(Alphabet) : Alphabet[n] = c
    ELSE 0

RECURSIVE localeCompare(_, _)
localeCompare(a, b) ==
    IF a = <<>> /\ b = <<>> THEN 0
    ELSE IF a = <<>> THEN -1
    ELSE IF b = <<>> THEN 1
    ELSE IF CharRank(Head(a)) < CharRank(Head(b)) THEN -1
    ELSE IF CharRank(Head(a)) > CharRank(Head(b)) THEN 1
    ELSE localeCompare(Tail(a), Tail(b))

\* part_000:78-95: the walk of one record's parts below `children`, whose
\* owner has path `path`; yields the owner's new children.
RECURSIVE WalkParts(_, _, _, _, _)
WalkParts(children, path, parts, partIndex, index) ==
    LET part == parts[partIndex + 1]
        isLast == partIndex = Len(parts) - 1
        found == {c \in 1..Len(children) :
                    children[c].name = part /\ children[c].isFolder = ~isLast}
    IN  IF found # {}
        THEN LET c == CHOOSE x \in found : \A y \in found : x <= y
             IN  IF isLast THEN children
                 ELSE [children EXCEPT ![c].children =
                         WalkParts(children[c].children, children[c].path,
                                   parts, partIndex + 1, index)]
        ELSE LET newPath == IF path # <<>> THEN path \o <<"/">> \o part ELSE part
             IN  Append(children,
                        [name |-> part,
                         path |-> newPath,
                         isFolder |-> ~isLast,
                         children |-> IF isLast THEN <<>>
                                      ELSE WalkParts(<<>>, newPath, parts,
                                                     partIndex + 1, index),
                         fileIndex |-> IF isLast THEN index ELSE Undefined])

\* part_000:74-96: files.forEach over the first n records
RECURSIVE BuildUpTo(_, _)
BuildUpTo(files, n) ==
    IF n = 0 THEN <<>>
    ELSE WalkParts(BuildUpTo(files, n - 1), <<>>, split(files[n].name), 0, n - 1)

\* Mutant: the comparator looks at the names only.
CompareNodesByName(a, b) == localeCompare(a.name, b.name)

\* part_000:100-103: the comparator
CompareNodes(a, b) ==
    IF a.isFolder = b.isFolder THEN localeCompare(a.name, b.name)
    ELSE IF a.isFolder THEN -1 ELSE 1

\* Array.prototype.sort is stable: x goes after every element not greater.
RECURSIVE InsertSorted(_, _)
InsertSorted(sorted, x) ==
    IF sorted = <<>> THEN <<x>>
    ELSE IF CompareNodes(x, sorted[Len(sorted)]) >= 0 THEN Append(sorted, x)
    ELSE Append(InsertSorted(SubSeq(sorted, 1, Len(sorted) - 1), x), sorted[Len(sorted)])

RECURSIVE SortUpTo(_, _)
SortUpTo(nodes, n) ==
    IF n = 0 THEN <<>> ELSE InsertSorted(SortUpTo(nodes, n - 1), nodes[n])

\* part_000:99-107
RECURSIVE sortNodes(_)
sortNodes(nodes) ==
    LET sorted == SortUpTo(nodes, Len(nodes))
    IN  [n \in 1..Len(sorted) |->
            IF sorted[n].isFolder
            THEN [sorted[n] EXCEPT !.children = sortNodes(sorted[n].children)]
            ELSE sorted[n]]

\* part_000:71-111
treeStructure(files) == sortNodes(BuildUpTo(files, Len(files)))

\* part_000:125-130
RECURSIVE getAllIndicesUnderNode(_)
RECURSIVE FlatMapIndices(_)
FlatMapIndices(nodes) ==
    IF nodes = <<>> THEN <<>>
    ELSE getAllIndicesUnderNode(Head(nodes)) \o FlatMapIndices(Tail(nodes))

getAllIndicesUnderNode(node) ==
    IF ~node.isFolder /\ node.fileIndex # Undefined THEN <<node.fileIndex>>
    ELSE FlatMapIndices(node.children)

Range(seq) == {seq[n] : n \in 1..Len(seq)}

\* every node renderTree can show (part_000:176-242)
RECURSIVE NodesOf(_)
NodesOf(nodes) ==
    Range(nodes) \cup UNION {NodesOf(nodes[n].children) : n \in 1..Len(nodes)}

\* Mutant: the leaf indices are taken one too high.
ToggledOneBased(selected, node) ==
    LET nodeIndices == {idx + 1 : idx \in Range(getAllIndicesUnderNode(node))}
        allSelected == \A idx \in nodeIndices : idx \in selected
    IN  IF allSelected THEN selected \ nodeIndices
                       ELSE selected \cup nodeIndices

\* Mutant: the selection is replaced, not updated.
ToggledAlone(selected, node) ==
    LET nodeIndices == Range(getAllIndicesUnderNode(node))
        allSelected == \A idx \in nodeIndices : idx \in selected
    IN  IF allSelected THEN {} ELSE nodeIndices

\* Mutant: a toggle only ever adds.
ToggledOnlyAdding(selected, node) ==
    selected \cup Range(getAllIndicesUnderNode(node))

\* Mutant: every leaf index under the node is toggled by itself.
ToggledEachLeaf(selected, node) ==
    LET nodeIndices == Range(getAllIndicesUnderNode(node))
    IN  (selected \ nodeIndices) \cup (nodeIndices \ selected)

\* part_000:133-148
Toggled(selected, node) ==
    LET nodeIndices == Range(getAllIndicesUnderNode(node))
        allSelected == \A idx \in nodeIndices : idx \in selected
    IN  IF allSelected THEN selected \ nodeIndices
                       ELSE selected \cup nodeIndices

\* Mutant: a node with anything selected under it counts as checked.
getSelectionStatusAnySelected(selected, node) ==
    LET nodeIndices == getAllIndicesUnderNode(node)
        selectedCount == Cardinality({n \in 1..Len(nodeIndices) : nodeIndices[n] \in selected})
    IN  IF Len(nodeIndices) = 0 THEN "unchecked"
        ELSE IF selectedCount = 0 THEN "unchecked"
        ELSE "checked"

\* part_000:151-160
getSelectionStatus(selected, node) ==
    LET nodeIndices == getAllIndicesUnderNode(node)
        selectedCount == Cardinality({n \in 1..Len(nodeIndices) : nodeIndices[n] \in selected})
    IN  IF Len(nodeIndices) = 0 THEN "unchecked"
        ELSE IF selectedCount = 0 THEN "unchecked"
        ELSE IF selectedCount = Len(nodeIndices) THEN "checked"
        ELSE "indeterminate"

ShownNodes == IF TreeShown THEN NodesOf(treeStructure(filesData)) ELSE {}

\* part_000:190-193: a click on a node's checkbox.  Any node can be brought
\* into view by expanding its ancestors, which touches no state modelled here.
ToggleSelection(node) ==
    /\ TreeShown
    /\ NotDragging
    /\ node \in ShownNodes
    /\ selectedIndices' = Toggled(selectedIndices, node)
    /\ last' = LET nodeIndices == Range(getAllIndicesUnderNode(node))
               IN  History("toggle", Len(filesData), <<>>, selectedIndices # {}, <<>>,
                           Cardinality(nodeIndices \cap selectedIndices),
                           Cardinality(nodeIndices), FALSE)
    /\ UNCHANGED <<filesData, isProcessing, inv, viewMode, draggedIndex, headerTemplate>>

----------------------------------------------------------------------------
(* The merged document (App.tsx:11-33) *)

NewLine == "\n"

Rule == [n \in 1..80 |-> "="]

\* App.tsx:11-13
DEFAULT_TEMPLATE ==
    Rule \o <<NewLine, "F", "i", "l", "e", ":", " ",
              "{", "f", "i", "l", "e", "N", "a", "m", "e", "}", NewLine>> \o Rule

\* the source of the pattern /{fileName}/g
FileNamePattern == <<"{", "f", "i", "l", "e", "N", "a", "m", "e", "}">>

\* What String.prototype.replace makes of a replacement string for one
\* match of a pattern without capture groups: $$ is a dollar sign, $& the
\* match, $` the text before the match and $' the text after it.
RECURSIVE GetSubstitution(_, _, _, _)
GetSubstitution(replacement, matched, before, after) ==
    IF replacement = <<>> THEN <<>>
    ELSE IF Head(replacement) = "$" /\ Len(replacement) >= 2
    THEN LET rest == SubSeq(replacement, 3, Len(replacement))
         IN  IF replacement[2] = "$"
             THEN <<"$">> \o GetSubstitution(rest, matched, before, after)
             ELSE IF replacement[2] = "&"
             THEN matched \o GetSubstitution(rest, matched, before, after)
             ELSE IF replacement[2] = "`"
             THEN before \o GetSubstitution(rest, matched, before, after)
             ELSE IF replacement[2] = "'"
             THEN after \o GetSubstitution(rest, matched, before, after)
             ELSE <<"$">> \o GetSubstitution(Tail(replacement), matched, before, after)
    ELSE <<Head(replacement)>> \o GetSubstitution(Tail(replacement), matched, before, after)

\* The position of the first match of the plain-text pattern at or after
\* position p, 0 when there is none.
NextMatch(str, p, pattern) ==
    LET matches == {q \in p..(Len(str) - Len(pattern) + 1) :
                       SubSeq(str, q, q + Len(pattern) - 1) = pattern}
    IN  IF matches = {} THEN 0
        ELSE CHOOSE q \in matches : \A r \in matches : q <= r

\* str.replace(/pattern/g, replacement) from position p on: the matches are
\* taken from left to right, each search going on after the match before.
RECURSIVE ReplaceFrom(_, _, _, _)
ReplaceFrom(str, p, pattern, replacement) ==
    LET q == NextMatch(str, p, pattern)
    IN  IF q = 0 THEN SubSeq(str, p, Len(str))
        ELSE SubSeq(str, p, q - 1)
             \o GetSubstitution(replacement, pattern, SubSeq(str, 1, q - 1),
                                SubSeq(str, q + Len(pattern), Len(str)))
             \o ReplaceFrom(str, q + Len(pattern), pattern, replacement)

\* App.tsx:29
Header(template, file) == ReplaceFrom(template, 1, FileNamePattern, file.name)

\* Mutant: no newline between the header and the content.
BlockWithoutNewline(template, file) == Header(template, file) \o file.content

\* App.tsx:31
Block(template, file) == Header(template, file) \o <<NewLine>> \o file.content

\* Array.prototype.join
RECURSIVE join(_, _)
join(parts, separator) ==
    IF parts = <<>> THEN <<>>
    ELSE IF Len(parts) = 1 THEN parts[1]
    ELSE parts[1] \o separator \o join(Tail(parts), separator)

\* Mutant: a record whose header is empty contributes its content alone.
mergedContentBareHeaders(files, template) ==
    IF Len(files) = 0 THEN <<>>
    ELSE join([n \in 1..Len(files) |->
                  IF Header(template, files[n]) = <<>> THEN files[n].content
                  ELSE Block(template, files[n])], <<NewLine, NewLine>>)

\* App.tsx:25-33
mergedContent(files, template) ==
    IF Len(files) = 0 THEN <<>>
    ELSE join([n \in 1..Len(files) |-> Block(template, files[n])], <<NewLine, NewLine>>)

\* App.tsx:242-248 and ResultViewer.tsx:40: the result view, which holds the
\* clear control, is rendered when no processing is flagged and the
\* document is a non-empty string.
ResultShown == ~isProcessing /\ mergedContent(filesData, headerTemplate) # <<>>

\* App.tsx:201: the textarea of the settings panel
SetHeaderTemplate(value) ==
    /\ NotDragging
    /\ value # headerTemplate
    /\ headerTemplate' = value
    /\ last' = Did("setHeaderTemplate", Len(filesData), <<>>, selectedIndices # {})
    /\ UNCHANGED <<filesData, isProcessing, inv, selectedIndices, viewMode, draggedIndex>>

\* App.tsx:208: back to the default
ResetHeaderTemplate ==
    /\ NotDragging
    /\ headerTemplate' = DEFAULT_TEMPLATE
    /\ last' = Did("resetHeaderTemplate", Len(filesData), <<>>, selectedIndices # {})
    /\ UNCHANGED <<filesData, isProcessing, inv, selectedIndices, viewMode, draggedIndex>>

----------------------------------------------------------------------------
(* Structure view (StructureViewer.tsx:12-56). The box-drawing characters  *)
(* of the source are written with one ASCII character each: U+2514 as L,   *)
(* U+251C as +, U+2500 as -, U+2502 as |. No record name here holds them.  *)

Corner == <<"L", "-", "-", " ">>
Tee    == <<"+", "-", "-", " ">>
Bar    == <<"|", " ", " ", " ">>
Blank  == <<" ", " ", " ", " ">>

\* An object of the nested structure is the sequence of its own properties
\* in insertion order: name is the key, isFolder says that the value is an
\* object (truthy) and not null, children is that object.
\* StructureViewer.tsx:20-26: parts[i..] of one path below current.
\* (No name here is a property of Object.prototype.)
RECURSIVE SetPath(_, _, _)
SetPath(current, parts, i) ==
    LET part == parts[i]
        isLast == i = Len(parts)
        found == {c \in 1..Len(current) : current[c].name = part}
        made == [name |-> part,
                 isFolder |-> ~isLast,
                 children |-> IF isLast THEN <<>>
                              ELSE SetPath(<<>>, parts, i + 1)]
    IN  IF found = {} THEN Append(current, made)
        ELSE LET c == CHOOSE x \in found : TRUE
             IN  IF ~current[c].isFolder THEN [current EXCEPT ![c] = made]
                 ELSE IF isLast THEN current
                 ELSE [current EXCEPT ![c].children = SetPath(@, parts, i + 1)]

\* StructureViewer.tsx:15-27: files.forEach over the first n records
RECURSIVE RootUpTo(_, _)
RootUpTo(files, n) ==
    IF n = 0 THEN <<>>
    ELSE SetPath(RootUpTo(files, n - 1), split(files[n].name), 1)

\* Mutant: the names are not compared, so keys of one kind stay in the order
\* in which the records put them.
CompareKeysKindOnly(a, b) ==
    IF a.isFolder /\ ~b.isFolder THEN -1
    ELSE IF ~a.isFolder /\ b.isFolder THEN 1
    ELSE 0

\* StructureViewer.tsx:33-39: the comparator of the keys
CompareKeys(a, b) ==
    IF a.isFolder /\ ~b.isFolder THEN -1
    ELSE IF ~a.isFolder /\ b.isFolder THEN 1
    ELSE localeCompare(a.name, b.name)

RECURSIVE InsertKey(_, _)
InsertKey(sorted, x) ==
    IF sorted = <<>> THEN <<x>>
    ELSE IF CompareKeys(x, sorted[Len(sorted)]) >= 0 THEN Append(sorted, x)
    ELSE Append(InsertKey(SubSeq(sorted, 1, Len(sorted) - 1), x), sorted[Len(sorted)])

\* StructureViewer.tsx:33-39: Object.keys(node).sort(...)
RECURSIVE SortedKeys(_, _)
SortedKeys(node, n) ==
    IF n = 0 THEN <<>> ELSE InsertKey(SortedKeys(node, n - 1), node[n])

\* StructureViewer.tsx:43
Marker(isLast) == IF isLast THEN Corner ELSE Tee

\* StructureViewer.tsx:47
Deeper(prefix, isLast) == prefix \o (IF isLast THEN Blank ELSE Bar)

\* StructureViewer.tsx:30-51
RECURSIVE traverse(_, _)
RECURSIVE TraverseFrom(_, _, _)
TraverseFrom(keys, index, prefix) ==
    IF index > Len(keys) THEN <<>>
    ELSE LET isLast == index = Len(keys)
         IN  prefix \o Marker(isLast) \o keys[index].name \o <<NewLine>>
             \o (IF keys[index].isFolder
                 THEN traverse(keys[index].children, Deeper(prefix, isLast))
                 ELSE <<>>)
             \o TraverseFrom(keys, index + 1, prefix)

traverse(node, prefix) == TraverseFrom(SortedKeys(node, Len(node)), 1, prefix)

WhiteSpace == {" ", NewLine, "\t"}

\* String.prototype.trim
RECURSIVE trim(_)
trim(s) ==
    IF s = <<>> THEN s
    ELSE IF Head(s) \in WhiteSpace THEN trim(Tail(s))
    ELSE IF s[Len(s)] \in WhiteSpace THEN trim(SubSeq(s, 1, Len(s) - 1))
    ELSE s

\* StructureViewer.tsx:12-56
treeString(files) ==
    IF Len(files) = 0 THEN <<>>
    ELSE trim(<<".", NewLine>> \o traverse(RootUpTo(files, Len(files)), <<>>))

----------------------------------------------------------------------------
(* The application *)

Init ==
    /\ filesData = <<>>
    /\ isProcessing = FALSE
    /\ inv = [k \in Slots |-> Idle]
    /\ selectedIndices = {}
    /\ viewMode = "list"
    /\ draggedIndex = NoIndex
    /\ headerTemplate = DEFAULT_TEMPLATE
    /\ last = Nothing

Next ==
    \/ \E k \in Slots, files \in Batches : HandleChange(k, files)
    \/ \E k \in Slots, files \in Batches : HandlePaste(k, files)
    \/ \E k \in Slots, files \in Batches : HandleDropFiles(k, files)
    \/ \E k \in Slots : EnumerationThrows(k)
    \/ \E k \in Slots : LoadResolved(k)
    \/ \E k \in Slots : LoadRejected(k)
    \/ \E k \in Slots : EntrySettled(k)
    \/ \E k \in Slots : ReadSettled(k)
    \/ \E index \in 0..(MaxStore + 1) : CanMoveUp(index) /\ MoveUp(index)
    \/ \E index \in 0..(MaxStore + 1) : CanMoveDown(index) /\ MoveDown(index)
    \/ \E index \in 0..(MaxStore + 1) : Remove(index)
    \/ \E index \in 0..(MaxStore + 1) : DragStart(index)
    \/ \E index \in 0..(MaxStore + 1) : Drop(index)
    \/ DragEnd
    \/ \E mode \in {"list", "tree"} : SetViewMode(mode)
    \/ \E node \in ShownNodes : ToggleSelection(node)
    \/ \E confirmed \in BOOLEAN, indices \in ArraysFrom(selectedIndices) :
          CanDeleteSelected /\ DeleteSelected(confirmed, indices)
    \/ Clear

Spec == Init /\ [][Next]_vars

\* App.tsx:47, 62, 85-93: the promises processFiles awaits. Each settles
\* once the read or the decompression it stands for completes or fails,
\* and the continuation of the invocation then runs.
AwaitsSettle ==
    \A k \in Slots :
        /\ WF_vars(LoadResolved(k))
        /\ WF_vars(LoadRejected(k))
        /\ WF_vars(EntrySettled(k))
        /\ WF_vars(ReadSettled(k))

\* The runs of the invocations: every entry point, every continuation, and
\* the store emptied or shortened under them.
NextLive ==
    \/ \E k \in Slots, files \in Batches : HandleChange(k, files)
    \/ \E k \in Slots, files \in Batches : HandlePaste(k, files)
    \/ \E k \in Slots, files \in Batches : HandleDropFiles(k, files)
    \/ \E k \in Slots : EnumerationThrows(k)
    \/ \E k \in Slots : LoadResolved(k)
    \/ \E k \in Slots : LoadRejected(k)
    \/ \E k \in Slots : EntrySettled(k)
    \/ \E k \in Slots : ReadSettled(k)
    \/ \E index \in 0..(MaxStore + 1) : Remove(index)
    \/ Clear

SpecLive == Init /\ [][NextLive]_vars /\ AwaitsSettle

----------------------------------------------------------------------------
(* One upload at a time, with larger batches and every kind of blob: the   *)
(* runs on which what processFiles makes of a batch is checked.            *)

MaxSoloStore == 4
MaxSoloBatch == 3

SoloBatches ==
    UNION {[1..n -> {PlainOk, PlainFail, ZipOk, ZipCorrupt, NotAFile}] : n \in 1..MaxSoloBatch}

\* FileList.tsx:154-158 with no invocation in flight
UploadAlone(files) ==
    /\ \A k \in Slots : ~InFlight(k)
    /\ ~isProcessing
    /\ Begin(1, files, MaxSoloStore)

NextBatch ==
    \/ \E files \in SoloBatches : UploadAlone(files)
    \/ LoadResolved(1)
    \/ LoadRejected(1)
    \/ EntrySettled(1)
    \/ ReadSettled(1)
    \/ Clear

SpecBatch == Init /\ [][NextBatch]_vars

----------------------------------------------------------------------------
(* The handlers of the store called on a loaded store, with every index of *)
(* it: the list view of FileList over records that uploads have left.      *)

MaxListLen == 3

StoreRecords ==
    {PlainRecord(PlainOk), PlainRecord(PlainFail), UnzipFailedRecord(ZipCorrupt)}

LoadedStores == UNION {[1..n -> StoreRecords] : n \in 1..MaxListLen}

InitStore ==
    /\ filesData \in LoadedStores
    /\ isProcessing = FALSE
    /\ inv = [k \in Slots |-> Idle]
    /\ selectedIndices = {}
    /\ viewMode = "list"
    /\ draggedIndex = NoIndex
    /\ headerTemplate = DEFAULT_TEMPLATE
    /\ last = Nothing

NextStore ==
    \/ \E index \in 0..MaxListLen : MoveUp(index)
    \/ \E index \in 0..MaxListLen : MoveDown(index)
    \/ \E index \in 0..MaxListLen : Remove(index)
    \/ \E index \in 0..MaxListLen : DragStart(index)
    \/ \E index \in 0..MaxListLen : Drop(index)
    \/ DragEnd
    \/ \E mode \in {"list", "tree"} : SetViewMode(mode)
    \/ \E node \in ShownNodes : ToggleSelection(node)

SpecStore == InitStore /\ [][NextStore]_vars

----------------------------------------------------------------------------
(* The tree view of FileList over a loaded store whose names are paths:    *)
(* entries of one folder, a file named like that folder, a path that       *)
(* begins with a slash, and the same name more than once.                  *)

MaxTreeLen == 3

PlainA == Blob(<<"a">>, "text/plain", FALSE, TRUE, <<"1">>, <<>>)

RootedEntry == Entry(<<"/", "a">>, FALSE, TRUE, <<"9">>)

TreeRecords ==
    {EntryRecord(ArchiveEntries[n]) :
        n \in {m \in 1..Len(ArchiveEntries) : ~SkipEntry(ArchiveEntries[m])}}
    \cup {PlainRecord(PlainOk), PlainRecord(PlainA), EntryRecord(RootedEntry)}

PathStores == UNION {[1..n -> TreeRecords] : n \in 1..MaxTreeLen}

InitTree ==
    /\ filesData \in PathStores
    /\ isProcessing = FALSE
    /\ inv = [k \in Slots |-> Idle]
    /\ selectedIndices = {}
    /\ viewMode = "list"
    /\ draggedIndex = NoIndex
    /\ headerTemplate = DEFAULT_TEMPLATE
    /\ last = Nothing

NextTree ==
    \/ \E mode \in {"list", "tree"} : SetViewMode(mode)
    \/ \E node \in ShownNodes : ToggleSelection(node)
    \/ \E confirmed \in BOOLEAN, indices \in ArraysFrom(selectedIndices) :
          DeleteSelected(confirmed, indices)

SpecTree == InitTree /\ [][NextTree]_vars

----------------------------------------------------------------------------
(* The merged document over a loaded store, with the settings panel: names *)
(* with a slash and with dollar signs, templates with the placeholder      *)
(* never, once and twice.                                                  *)

MaxMergeLen == 2

PlainDollars == Blob(<<"$", "$">>, "text/plain", FALSE, TRUE, <<"1">>, <<>>)

PlainAmpersand == Blob(<<"c", "$", "&">>, "text/plain", FALSE, TRUE, <<>>, <<>>)

MergeRecords ==
    {PlainRecord(PlainOk), EntryRecord(ArchiveEntries[4]),
     PlainRecord(PlainDollars), PlainRecord(PlainAmpersand)}

MergeStores == UNION {[1..n -> MergeRecords] : n \in 1..MaxMergeLen}

\* What the user types into the textarea.
Templates ==
    {<<>>,
     FileNamePattern,
     <<"#">> \o FileNamePattern \o <<":">> \o FileNamePattern \o <<NewLine>>,
     <<"{", "f", "i", "l", "e", "}">>}

InitMerge ==
    /\ filesData \in MergeStores
    /\ isProcessing = FALSE
    /\ inv = [k \in Slots |-> Idle]
    /\ selectedIndices = {}
    /\ viewMode = "list"
    /\ draggedIndex = NoIndex
    /\ headerTemplate = DEFAULT_TEMPLATE
    /\ last = Nothing

NextMerge ==
    \/ \E value \in Templates : SetHeaderTemplate(value)
    \/ ResetHeaderTemplate
    \/ \E index \in 0..MaxMergeLen : Remove(index)
    \/ Clear

SpecMerge == InitMerge /\ [][NextMerge]_vars

----------------------------------------------------------------------------
(* The structure view over a loaded store whose order the list view        *)
(* changes: entries one and two folders deep, a file named like a folder,  *)
(* a name that ends in a space.                                            *)

MaxRenderLen == 2

DeepEntry == Entry(<<"a", "/", "x", "/", "y">>, FALSE, TRUE, <<"2">>)

PlainSpaced == Blob(<<"y", " ">>, "text/plain", FALSE, TRUE, <<"1">>, <<>>)

RenderRecords ==
    {EntryRecord(ArchiveEntries[n]) :
        n \in {m \in 1..Len(ArchiveEntries) : ~SkipEntry(ArchiveEntries[m])}}
    \cup {EntryRecord(DeepEntry), PlainRecord(PlainOk), PlainRecord(PlainA),
          PlainRecord(PlainSpaced)}

RenderStores == UNION {[1..n -> RenderRecords] : n \in 1..MaxRenderLen}

InitRender ==
    /\ filesData \in RenderStores
    /\ isProcessing = FALSE
    /\ inv = [k \in Slots |-> Idle]
    /\ selectedIndices = {}
    /\ viewMode = "list"
    /\ draggedIndex = NoIndex
    /\ headerTemplate = DEFAULT_TEMPLATE
    /\ last = Nothing

NextRender ==
    \/ \E index \in 0..MaxRenderLen : MoveUp(index)
    \/ \E index \in 0..MaxRenderLen : MoveDown(index)
    \/ \E index \in 0..MaxRenderLen : Remove(index)
    \/ \E index \in 0..MaxRenderLen : DragStart(index)
    \/ \E index \in 0..MaxRenderLen : Drop(index)
    \/ DragEnd

SpecRender == InitRender /\ [][NextRender]_vars

----------------------------------------------------------------------------
(* One upload at a time over blobs of every name and declared type: the    *)
(* runs on which the choice between archive and plain file is checked.     *)

MaxClassBatch == 1
MaxClassStore == 2

ClassBatches == UNION {[1..n -> ClassBlobs] : n \in 1..MaxClassBatch}

\* FileList.tsx:154-158 with no invocation in flight
UploadClassified(files) ==
    /\ \A k \in Slots : ~InFlight(k)
    /\ ~isProcessing
    /\ Begin(1, files, MaxClassStore)

NextClassify ==
    \/ \E files \in ClassBatches : UploadClassified(files)
    \/ LoadResolved(1)
    \/ LoadRejected(1)
    \/ EntrySettled(1)
    \/ ReadSettled(1)
    \/ Clear

SpecClassify == Init /\ [][NextClassify]_vars

----------------------------------------------------------------------------
(* One archive at a time, with every list of entries: the runs on which    *)
(* the filter of the entries is checked.                                   *)

MaxArchiveStore == 3

\* FileList.tsx:154-158 with no invocation in flight
UploadArchive(file) ==
    /\ \A k \in Slots : ~InFlight(k)
    /\ ~isProcessing
    /\ Begin(1, <<file>>, MaxArchiveStore)

NextArchive ==
    \/ \E file \in ArchiveBlobs : UploadArchive(file)
    \/ LoadResolved(1)
    \/ EntrySettled(1)
    \/ Clear

SpecArchive == Init /\ [][NextArchive]_vars

----------------------------------------------------------------------------
(* Properties *)

IsPrefix(a, b) == Len(a) <= Len(b) /\ SubSeq(b, 1, Len(a)) = a

InFlightSlots == {k \in Slots : InFlight(k)}

Placeholders == {ErrRead, ErrUnzip, ErrZipEntry}

\* A step taken by a processFiles invocation: its start, a continuation after
\* an await, or its end.
IngestionStep ==
    \/ inv' # inv
    \/ last'.op \in {"append", "catastrophe", "enumerationThrew"}

\* The slot whose invocation ends in this step.
Ends(k) == inv[k].pc # "idle" /\ inv'[k].pc = "idle"

\* C1: while one ingestion invocation is in flight no second one can start,
\* so at most one invocation is in flight in every reachable state.
C1_AtMostOneInFlight == Cardinality(InFlightSlots) <= 1

\* C2: every step that changes the store leaves the selection set empty.
C2_MutationClearsSelection ==
    [][filesData' # filesData => selectedIndices' = {}]_vars

C2_Witness ==
    /\ last.op \in {"moveUp", "moveDown", "reorder", "remove", "removeMany", "append"}
    /\ last.sel
    /\ selectedIndices = {}
    /\ filesData # <<>>

\* C3: the selection set holds only indices of records that exist.
C3_SelectionWithinStore == selectedIndices \subseteq Indices(filesData)

C3_Witness ==
    /\ viewMode = "tree"
    /\ Cardinality(selectedIndices) >= 2
    /\ (Len(filesData) - 1) \in selectedIndices

\* C4: whatever fails inside an invocation, none of its steps removes,
\* reorders or alters a stored record: the store before the step is a prefix
\* of the store after it.
C4_StoreKeptAsPrefix ==
    [][IngestionStep => IsPrefix(filesData, filesData')]_vars

C4_Witness ==
    /\ last.op = "append"
    /\ last.n > 0
    /\ Len(filesData) > last.n
    /\ \E n \in (last.n + 1)..Len(filesData) : filesData[n].content \in Placeholders

\* C5: an invocation writes the store in no step but its last one, which it
\* takes only when every blob of the batch has been processed; an invocation
\* that fails catastrophically never writes it.
C5_OneAppendAtTheEnd ==
    [][IngestionStep =>
         IF last'.op = "append"
         THEN \E k \in Slots :
                 /\ Ends(k)
                 /\ inv[k].i = Len(inv[k].files)
                 /\ filesData' = filesData \o last'.batch
                 /\ IsPrefix(inv[k].list, last'.batch)
         ELSE filesData' = filesData]_vars

C5_Witness ==
    /\ last.op = "append"
    /\ Len(last.batch) >= 2
    /\ Len(filesData) = last.n + Len(last.batch)

\* C6: a catastrophic failure leaves the store as it was; the records the
\* invocation had already decoded are not appended.
C6_CatastropheKeepsStore ==
    [][last'.op \in {"catastrophe", "enumerationThrew"} => filesData' = filesData]_vars

C6_Witness ==
    /\ last.op = "catastrophe"
    /\ last.batch # <<>>
    /\ last.n > 0
    /\ Len(filesData) = last.n

\* C7: appending a batch to a store of length n gives length n + |batch|,
\* the first n records being the previous store and the last |batch| the
\* batch, both in order.
C7_AppendShape ==
    [][last'.op = "append" =>
         /\ Len(filesData') = Len(filesData) + Len(last'.batch)
         /\ \A n \in 1..Len(filesData) : filesData'[n] = filesData[n]
         /\ \A n \in 1..Len(last'.batch) :
               filesData'[Len(filesData) + n] = last'.batch[n]]_vars

C7_Witness ==
    /\ last.op = "append"
    /\ last.n >= 1
    /\ Len(last.batch) >= 2
    /\ filesData[last.n + 1] # filesData[last.n + 2]
    /\ filesData[last.n] # filesData[last.n + 1]


----------------------------------------------------------------------------
(* What a batch is expected to become, item by item.  An item is a thing   *)
(* that contributes one record: a plain blob, an archive that does not     *)
(* open, or an entry of an opened archive that is neither a directory nor  *)
(* platform metadata.                                                      *)

Item(name, ok, text, placeholder) ==
    [name |-> name, ok |-> ok, text |-> text, placeholder |-> placeholder]

RECURSIVE EntryItems(_)
EntryItems(entries) ==
    IF entries = <<>> THEN <<>>
    ELSE LET e == Head(entries)
         IN  (IF SkipEntry(e) THEN <<>> ELSE <<Item(e.path, e.ok, e.content, ErrZipEntry)>>)
             \o EntryItems(Tail(entries))

ItemsOf(file) ==
    IF IsZip(file)
    THEN IF file.ok THEN EntryItems(file.entries)
                    ELSE <<Item(file.name, FALSE, <<>>, ErrUnzip)>>
    ELSE <<Item(file.name, file.ok, file.content, ErrRead)>>

RECURSIVE Items(_)
Items(files) ==
    IF files = <<>> THEN <<>> ELSE ItemsOf(Head(files)) \o Items(Tail(files))

ExpectedRecord(item) ==
    [name |-> item.name, content |-> IF item.ok THEN item.text ELSE item.placeholder]

Expected(files) ==
    LET items == Items(files) IN [n \in 1..Len(items) |-> ExpectedRecord(items[n])]

Names(list) == [n \in 1..Len(list) |-> list[n].name]

WithoutBlob(files, p) == SubSeq(files, 1, p - 1) \o SubSeq(files, p + 1, Len(files))

\* The items an invocation in flight has been through.
ItemsDone(s) ==
    Items(SubSeq(s.files, 1, s.i - 1))
    \o (IF s.pc = "entry" THEN EntryItems(SubSeq(s.files[s.i].entries, 1, s.j - 1))
        ELSE <<>>)

\* C8: the batch keeps the order of the uploaded blobs, and the records of
\* one archive are together, in the archive's enumeration order, at the
\* place of that archive: while the invocation runs and when it appends.
C8_InOrderSoFar ==
    \A k \in Slots : InFlight(k) => Names(inv[k].list) = Names(ItemsDone(inv[k]))

C8_BatchInBlobOrder ==
    /\ []C8_InOrderSoFar
    /\ [][last'.op = "append" =>
            \E k \in Slots : Ends(k) /\ Names(last'.batch) = Names(Items(inv[k].files))]_vars

C8_Witness ==
    /\ last.op = "append"
    /\ Names(last.batch) = << <<"z">>, <<"a", "/", "c">>, <<"a", "/", "b">>, <<"y">> >>

\* C9: an archive that cannot be opened contributes exactly one record, with
\* the upload's name and the unzip placeholder, at its place; the rest of
\* the batch is what the batch without that archive becomes.
C9_FailedArchiveIsOneRecord ==
    [][last'.op = "append" =>
         \E k \in Slots :
            /\ Ends(k)
            /\ \A p \in 1..Len(inv[k].files) :
                  LET files == inv[k].files
                      at == Len(Items(SubSeq(files, 1, p - 1)))
                  IN  IsZip(files[p]) /\ ~files[p].ok =>
                         /\ Len(last'.batch) = Len(Expected(WithoutBlob(files, p))) + 1
                         /\ last'.batch[at + 1] = [name |-> files[p].name, content |-> ErrUnzip]
                         /\ SubSeq(last'.batch, 1, at) \o SubSeq(last'.batch, at + 2, Len(last'.batch))
                               = Expected(WithoutBlob(files, p))]_vars

C9_Witness ==
    /\ last.op = "append"
    /\ last.batch = << [name |-> <<"z">>, content |-> <<"2">>],
                       [name |-> <<"w">>, content |-> ErrUnzip],
                       [name |-> <<"y">>, content |-> ErrRead] >>

\* C10: an entry or a plain blob that fails to decode still contributes one
\* record, with its own name and its placeholder, and every item after it
\* contributes the record it contributes without that failure.
C10_DecodeFailureIsLocal ==
    [][last'.op = "append" =>
         \E k \in Slots :
            /\ Ends(k)
            /\ LET items == Items(inv[k].files)
               IN  /\ Len(last'.batch) = Len(items)
                   /\ \A n \in 1..Len(items) :
                         ~items[n].ok /\ items[n].placeholder \in {ErrRead, ErrZipEntry} =>
                            /\ last'.batch[n] = [name |-> items[n].name,
                                                 content |-> items[n].placeholder]
                            /\ \A m \in (n + 1)..Len(items) :
                                  last'.batch[m] = ExpectedRecord(items[m])]_vars

C10_Witness ==
    /\ last.op = "append"
    /\ last.batch = << [name |-> <<"y">>, content |-> ErrRead],
                       [name |-> <<"a", "/", "c">>, content |-> ErrZipEntry],
                       [name |-> <<"a", "/", "b">>, content |-> <<"1">>],
                       [name |-> <<"z">>, content |-> <<"2">>] >>

----------------------------------------------------------------------------
(* The handlers of the store *)

\* C11: moveUp(0) and moveDown(n-1) are no-ops on every store of length
\* n >= 1: the store is unchanged, and so is the selection.
C11_EdgeMovesAreNoOps ==
    [][(MoveUp(0) \/ MoveDown(Len(filesData) - 1))
         => UNCHANGED <<filesData, selectedIndices, viewMode, draggedIndex>>]_vars

C11_Witness ==
    /\ last.op \in {"moveUpReturned", "moveDownReturned"}
    /\ last.from = IF last.op = "moveUpReturned" THEN 0 ELSE Len(filesData) - 1
    /\ last.prev = filesData
    /\ Len(filesData) >= 2
    /\ selectedIndices # {}

\* The records at the zero-based positions p and q have changed places and
\* nothing else has changed.
Exchanged(before, after, p, q) ==
    /\ Len(after) = Len(before)
    /\ after[p + 1] = before[q + 1]
    /\ after[q + 1] = before[p + 1]
    /\ \A n \in Indices(before) \ {p, q} : after[n + 1] = before[n + 1]

\* C12: for 0 < i <= n-1 moveUp(i) exchanges the records at i-1 and i, and
\* for 0 <= i < n-1 moveDown(i) exchanges those at i and i+1; the length,
\* every other position and every record's content stay as they were.
C12_MovesExchangeNeighbours ==
    [][\A i \in Indices(filesData) :
         /\ (i > 0 /\ MoveUp(i)) => Exchanged(filesData, filesData', i - 1, i)
         /\ (i < Len(filesData) - 1 /\ MoveDown(i))
               => Exchanged(filesData, filesData', i, i + 1)]_vars

C12_Witness ==
    /\ last.op = "moveDown"
    /\ last.from = 1
    /\ Len(filesData) = 3
    /\ filesData[2] # filesData[3]
    /\ filesData[1] # filesData[2]
    /\ filesData # last.prev

\* The sequence without its zero-based position p.
SkipAt(seq, p) ==
    [n \in 1..(Len(seq) - 1) |-> IF n <= p THEN seq[n] ELSE seq[n + 1]]

\* `after` is `before` with the record of position from taken out and found
\* at position to of the result, the other records in their order.
MovedTo(before, after, from, to) ==
    /\ Len(after) = Len(before)
    /\ after[to + 1] = before[from + 1]
    /\ SkipAt(after, to) = SkipAt(before, from)

\* C13: for valid from and to, reorder(from, to) gives a store of the same
\* length with the record formerly at from at position to, the other
\* records keeping their relative order and content: for the handler on
\* every pair of indices, and for every drop of a dragged row.
C13_ReorderPlacesRecord ==
    /\ [](\A from, to \in Indices(filesData) :
            MovedTo(filesData, Reordered(filesData, from, to), from, to))
    /\ [][\A to \in Indices(filesData) :
            (draggedIndex # to /\ Drop(to))
               => MovedTo(filesData, filesData', draggedIndex, to)]_vars

C13_Witness ==
    /\ last.op = "reorder"
    /\ last.from = 0
    /\ last.to = 2
    /\ Cardinality(Range(filesData)) = 3
    /\ filesData[3] = last.prev[1]

\* C14: for valid a # b, reorder(a, b) followed by reorder(b, a) gives back
\* the store reorder(a, b) was called on: for the handler on every pair of
\* indices, and for every drop that undoes the drop before it.
C14_ReorderUndone ==
    /\ [](\A a, b \in Indices(filesData) :
            a # b => Reordered(Reordered(filesData, a, b), b, a) = filesData)
    /\ [][last'.undo => filesData' = last.prev]_vars

C14_Witness ==
    /\ last.undo
    /\ last.from = 2
    /\ last.to = 0
    /\ Cardinality(Range(filesData)) = 3
    /\ filesData # last.prev

\* The records of `before` whose zero-based position is not in `gone`, in
\* their order.
RECURSIVE Survivors(_, _)
Survivors(before, gone) ==
    IF before = <<>> THEN <<>>
    ELSE LET front == Survivors(SubSeq(before, 1, Len(before) - 1), gone)
         IN  IF (Len(before) - 1) \in gone THEN front
             ELSE Append(front, before[Len(before)])

\* remove applied once per index of `gone`, from the highest to the lowest
RECURSIVE RemovedDescending(_, _)
RemovedDescending(before, gone) ==
    IF gone = {} THEN before
    ELSE LET top == CHOOSE i \in gone : \A j \in gone : j <= i
         IN  RemovedDescending(Removed(before, top), gone \ {top})

\* C15: removeMany over a set of valid indices gives the same store in
\* whatever order the indices are listed, the store that remove gives when
\* applied once per index from the highest to the lowest; the survivors
\* keep their relative order.
C15_RemoveManyAnyOrder ==
    [][\A indices \in ArraysFrom(selectedIndices) :
         DeleteSelected(TRUE, indices)
            => /\ \A other \in ArraysFrom(selectedIndices) :
                     RemovedMultiple(filesData, other) = filesData'
               /\ filesData' = RemovedDescending(filesData, selectedIndices)
               /\ filesData' = Survivors(filesData, selectedIndices)]_vars

C15_Witness ==
    /\ last.op = "removeMany"
    /\ last.n = 3
    /\ Len(filesData) = 1
    /\ viewMode = "tree"

\* C16: remove(i) for a valid i gives a store of length n-1 whose positions
\* below i are unchanged and whose position j-1 holds the record formerly
\* at j, for every j > i; the indices of the store stay 0..length-1.
C16_RemoveShiftsLeft ==
    /\ [](DOMAIN filesData = 1..Len(filesData))
    /\ [][\A i \in Indices(filesData) :
            Remove(i)
               => /\ Len(filesData') = Len(filesData) - 1
                  /\ \A j \in 0..(i - 1) : filesData'[j + 1] = filesData[j + 1]
                  /\ \A j \in (i + 1)..(Len(filesData) - 1) :
                        filesData'[j] = filesData[j + 1]]_vars

C16_Witness ==
    /\ last.op = "remove"
    /\ last.from = 1
    /\ Len(last.prev) = 3
    /\ Len(filesData) = 2
    /\ last.prev[1] # last.prev[2]
    /\ last.prev[2] # last.prev[3]

----------------------------------------------------------------------------
(* The tree view *)

\* C17: for every store, two records of one name included, every index
\* 0..n-1 is the index of a file node of the built tree: the leaf indices
\* of the whole tree are exactly the indices of the store.
C17_LeavesAreIndices ==
    Range(FlatMapIndices(treeStructure(filesData))) = Indices(filesData)

\* C18: in a built tree no two distinct nodes have the same path and the
\* same isFolder flag.
C18_NodesIdentifiedByPath ==
    \A x, y \in NodesOf(treeStructure(filesData)) :
        (x.path = y.path /\ x.isFolder = y.isFolder) => x = y

\* The children lists of a tree: the root's and every folder's.
Levels(tree) ==
    {tree} \cup {node.children : node \in {x \in NodesOf(tree) : x.isFolder}}

\* Folders before files, and names in alphabetical order among the folders
\* and among the files.
SortedLevel(nodes) ==
    \A n, m \in 1..Len(nodes) :
        n < m => /\ nodes[n].isFolder \/ ~nodes[m].isFolder
                 /\ nodes[n].isFolder = nodes[m].isFolder
                       => localeCompare(nodes[n].name, nodes[m].name) <= 0

\* Names and kinds of a tree, level by level.
RECURSIVE ShapeOf(_)
ShapeOf(nodes) ==
    [n \in 1..Len(nodes) |->
        <<nodes[n].name, nodes[n].isFolder, ShapeOf(nodes[n].children)>>]

\* C19: at every level of every built tree the folders come before the
\* files, and the folders and the files are each in alphabetical order of
\* their names; the store of a/b, a/c and z, in any order, gives the root
\* [folder a [b, c], file z].
C19_SortedAtEveryLevel ==
    /\ \A nodes \in Levels(treeStructure(filesData)) : SortedLevel(nodes)
    /\ (/\ Len(filesData) = 3
        /\ Range(Names(filesData)) = {<<"a", "/", "b">>, <<"a", "/", "c">>, <<"z">>})
          => ShapeOf(treeStructure(filesData))
               = << <<<<"a">>, TRUE, << <<<<"b">>, FALSE, <<>>>>,
                                       <<<<"c">>, FALSE, <<>>>> >> >>,
                    <<<<"z">>, FALSE, <<>>>> >>

C19_Witness ==
    /\ viewMode = "tree"
    /\ Names(filesData) = << <<"z">>, <<"a", "/", "c">>, <<"a", "/", "b">> >>

\* The leaf indices under a node.
RECURSIVE LeafIndices(_)
LeafIndices(node) ==
    IF node.isFolder
    THEN UNION {LeafIndices(node.children[n]) : n \in 1..Len(node.children)}
    ELSE {node.fileIndex}

\* C20: toggle(node) removes every leaf index under node from the selection
\* if all of them are selected and adds all of them otherwise; right after
\* it the status of node is checked or unchecked, never indeterminate.
C20_ToggleAllOrNone ==
    [][\A node \in ShownNodes :
         ToggleSelection(node)
            => /\ selectedIndices' =
                     IF LeafIndices(node) \subseteq selectedIndices
                     THEN selectedIndices \ LeafIndices(node)
                     ELSE selectedIndices \cup LeafIndices(node)
               /\ getSelectionStatus(selectedIndices', node)
                     \in {"checked", "unchecked"}]_vars

C20_Witness ==
    /\ last.op = "toggle"
    /\ 0 < last.from
    /\ last.from < last.to
    /\ \E node \in ShownNodes :
          /\ node.isFolder
          /\ Cardinality(LeafIndices(node)) = last.to
          /\ LeafIndices(node) \subseteq selectedIndices
          /\ getSelectionStatus(selectedIndices, node) = "checked"

\* A folder node with nothing below it.
EmptyFolder ==
    [name |-> <<"e">>, path |-> <<"e">>, isFolder |-> TRUE, children |-> <<>>,
     fileIndex |-> Undefined]

\* The status the selection set gives a node whose leaf indices are L.
StatusOf(L, selected) ==
    LET s == Cardinality(L \cap selected)
    IN  IF L = {} \/ s = 0 THEN "unchecked"
        ELSE IF s = Cardinality(L) THEN "checked"
        ELSE "indeterminate"

\* C21: with L the leaf indices under a node and s the number of them that
\* are selected, the status of the node is unchecked if L is empty or
\* s = 0, checked if s = |L| > 0 and indeterminate otherwise: for every
\* node of the built tree, a folder with nothing below it, and every
\* selection set.
C21_StatusOfNode ==
    \A node \in NodesOf(treeStructure(filesData)) \cup {EmptyFolder} :
        \A selected \in SUBSET Indices(filesData) :
            getSelectionStatus(selected, node) = StatusOf(LeafIndices(node), selected)

C21_Witness ==
    /\ viewMode = "tree"
    /\ \E node \in ShownNodes :
          /\ node.isFolder
          /\ getSelectionStatus(selectedIndices, node) = "indeterminate"
    /\ \E node \in ShownNodes : getSelectionStatus(selectedIndices, node) = "checked"
    /\ \E node \in ShownNodes : getSelectionStatus(selectedIndices, node) = "unchecked"

\* The file nodes below a folder.
FilesUnder(folder) == {x \in NodesOf(folder.children) : ~x.isFolder}

\* C22 as stated: for every folder of a built tree, selecting all leaves
\* under it makes its status checked, and toggling one file node under it
\* then makes its status indeterminate.
C22_DeselectOneIsIndeterminate ==
    /\ [](\A folder \in {x \in ShownNodes : x.isFolder} :
            \A selected \in SUBSET Indices(filesData) :
                ~(LeafIndices(folder) \subseteq selected)
                   => getSelectionStatus(Toggled(selected, folder), folder) = "checked")
    /\ [][\A folder \in {x \in ShownNodes : x.isFolder} :
            \A file \in FilesUnder(folder) :
                (/\ getSelectionStatus(selectedIndices, folder) = "checked"
                 /\ ToggleSelection(file))
                   => getSelectionStatus(selectedIndices', folder) = "indeterminate"]_vars

\* C22, amended: the same for every folder with at least two leaf indices
\* under it; a folder with one leaf index goes from checked to unchecked.
C22_DeselectOneOfSeveral ==
    /\ [](\A folder \in {x \in ShownNodes : x.isFolder} :
            \A selected \in SUBSET Indices(filesData) :
                ~(LeafIndices(folder) \subseteq selected)
                   => getSelectionStatus(Toggled(selected, folder), folder) = "checked")
    /\ [][\A folder \in {x \in ShownNodes : x.isFolder} :
            \A file \in FilesUnder(folder) :
                (/\ getSelectionStatus(selectedIndices, folder) = "checked"
                 /\ ToggleSelection(file))
                   => getSelectionStatus(selectedIndices', folder) =
                        IF Cardinality(LeafIndices(folder)) >= 2
                        THEN "indeterminate" ELSE "unchecked"]_vars

C22_Witness ==
    /\ last.op = "toggle"
    /\ last.from = 1
    /\ last.to = 1
    /\ \E folder \in {x \in ShownNodes : x.isFolder} :
          /\ Cardinality(LeafIndices(folder)) = 2
          /\ Cardinality(LeafIndices(folder) \cap selectedIndices) = 1
          /\ getSelectionStatus(selectedIndices, folder) = "indeterminate"

----------------------------------------------------------------------------
(* The merged document *)

\* The first k blocks of the document, each the header of its record, a
\* newline and the record's content, with one empty line between two.
RECURSIVE BlocksUpTo(_)
BlocksUpTo(k) ==
    LET block == Header(headerTemplate, filesData[k]) \o <<NewLine>> \o filesData[k].content
    IN  IF k = 1 THEN block
        ELSE BlocksUpTo(k - 1) \o <<NewLine, NewLine>> \o block

TokenAt(template, p) ==
    /\ p + Len(FileNamePattern) - 1 <= Len(template)
    /\ SubSeq(template, p, p + Len(FileNamePattern) - 1) = FileNamePattern

\* The template from position p on, with every occurrence of the
\* placeholder token replaced by the name, character for character.
RECURSIVE SubstitutedFrom(_, _, _)
SubstitutedFrom(template, p, name) ==
    LET tokens == {q \in p..Len(template) : TokenAt(template, q)}
    IN  IF tokens = {} THEN SubSeq(template, p, Len(template))
        ELSE LET q == CHOOSE t \in tokens : \A u \in tokens : t <= u
             IN  SubSeq(template, p, q - 1) \o name
                 \o SubstitutedFrom(template, q + Len(FileNamePattern), name)

\* C24: for every template and every record name, the record's header is
\* the template with every occurrence of the placeholder token replaced by
\* the name exactly as stored, the text outside the token unchanged.
C24_HeaderHoldsName ==
    \A n \in 1..Len(filesData) :
        Header(headerTemplate, filesData[n])
           = SubstitutedFrom(headerTemplate, 1, filesData[n].name)

----------------------------------------------------------------------------
\* The nodes of the listing by position: <<2, 1>> is the first child of the
\* second top-level node, children in the order in which they are listed.
Listed(node) == SortedKeys(node, Len(node))

RECURSIVE Positions(_)
Positions(node) ==
    UNION {{<<n>>} \cup {<<n>> \o p : p \in Positions(Listed(node)[n].children)} :
           n \in 1..Len(node)}

\* The siblings among which pos[j] counts.
RECURSIVE LevelAt(_, _, _)
LevelAt(node, pos, j) ==
    IF j = 1 THEN Listed(node)
    ELSE LevelAt(Listed(node)[pos[1]].children, Tail(pos), j - 1)

IsLastSibling(root, pos, j) == pos[j] = Len(LevelAt(root, pos, j))

\* One prefix for each of the ancestors 1..j of the node at pos.
RECURSIVE AncestorPrefix(_, _, _)
AncestorPrefix(root, pos, j) ==
    IF j = 0 THEN <<>>
    ELSE AncestorPrefix(root, pos, j - 1)
         \o (IF IsLastSibling(root, pos, j) THEN Blank ELSE Bar)

LineAt(root, pos) ==
    AncestorPrefix(root, pos, Len(pos) - 1)
    \o (IF IsLastSibling(root, pos, Len(pos)) THEN Corner ELSE Tee)
    \o LevelAt(root, pos, Len(pos))[pos[Len(pos)]].name

\* Depth-first: a node before its descendants, a subtree before the next sibling.
DepthFirstBefore(p, q) ==
    \/ Len(p) < Len(q) /\ SubSeq(q, 1, Len(p)) = p
    \/ \E j \in 1..Len(p) :
          /\ j <= Len(q)
          /\ SubSeq(p, 1, j - 1) = SubSeq(q, 1, j - 1)
          /\ p[j] < q[j]

ListingLines(root) ==
    LET P == Positions(root)
    IN  [k \in 1..Cardinality(P) |->
            LineAt(root, CHOOSE p \in P :
                            Cardinality({q \in P : DepthFirstBefore(q, p)}) = k - 1)]

ExampleStore ==
    <<FileData(<<"a", "/", "b", ".", "t", "x", "t">>, <<>>),
      FileData(<<"a", "/", "c", ".", "t", "x", "t">>, <<>>),
      FileData(<<"z", ".", "t", "x", "t">>, <<>>)>>

ExampleLines ==
    <<<<".">>,
      Tee \o <<"a">>,
      Bar \o Tee \o <<"b", ".", "t", "x", "t">>,
      Bar \o Corner \o <<"c", ".", "t", "x", "t">>,
      Corner \o <<"z", ".", "t", "x", "t">>>>

\* C25: for a non-empty store the structure string is the line "." followed
\* by one line per node of the renderer's tree in depth-first sorted order,
\* each line being one bar or blank prefix per ancestor (bar if that ancestor
\* is not the last of its siblings), then the corner (last sibling) or the
\* tee, then the node's name; the three-path example gives its five lines.
C25_ListingLines ==
    /\ filesData # <<>> =>
          treeString(filesData) =
              join(<<<<".">>>> \o ListingLines(RootUpTo(filesData, Len(filesData))),
                   <<NewLine>>)
    /\ treeString(ExampleStore) = join(ExampleLines, <<NewLine>>)

----------------------------------------------------------------------------
ZipTypes == {"application/zip", "application/x-zip-compressed"}

\* The last four characters are a dot and z, i, p in either case.
HasArchiveExtension(name) ==
    /\ Len(name) >= 4
    /\ name[Len(name) - 3] = "."
    /\ name[Len(name) - 2] \in {"z", "Z"}
    /\ name[Len(name) - 1] \in {"i", "I"}
    /\ name[Len(name)] \in {"p", "P"}

ArchiveTyped(file) == HasArchiveExtension(file.name) \/ file.type \in ZipTypes

\* What slot k has collected once a step of it is over.
Collected(k) == IF inv[k].pc = "idle" THEN last.batch ELSE inv[k].list

\* C26: the blob an invocation is working on is being opened as an archive
\* (it awaits loadAsync or one of the entries) exactly when its name ends in
\* .zip in any case or its type is one of the two zip types; any other blob
\* is being read as text, and when that read settles the invocation has
\* collected exactly one more record, named with the blob's name.
C26_ArchiveOrPlain ==
    /\ [](\A k \in InFlightSlots :
            LET file == inv[k].files[inv[k].i]
            IN  /\ inv[k].pc \in {"load", "entry"} <=> ArchiveTyped(file)
                /\ inv[k].pc = "read" <=> ~ArchiveTyped(file))
    /\ [][\A k \in InFlightSlots :
            (~ArchiveTyped(inv[k].files[inv[k].i]) /\ inv'[k] # inv[k]) =>
                /\ Len(Collected(k)') = Len(inv[k].list) + 1
                /\ SubSeq(Collected(k)', 1, Len(inv[k].list)) = inv[k].list
                /\ Collected(k)'[Len(Collected(k)')].name = inv[k].files[inv[k].i].name]_vars

\* A blob with no archive extension and the second zip type is being opened
\* as an archive; before it a blob named zip, of a type that is no zip type,
\* was read as a plain file and gave the one record of the store.
C26_Witness ==
    /\ Len(filesData) = 1
    /\ filesData[1].name = <<"z", "i", "p">>
    /\ last.op = "none"
    /\ \E k \in InFlightSlots :
          /\ inv[k].pc = "load"
          /\ inv[k].files[inv[k].i].name = <<".", "z", "i", "p", "x">>
          /\ inv[k].files[inv[k].i].type = "application/x-zip-compressed"

----------------------------------------------------------------------------
Markers == {MacOsx, DsStore}

\* One of the segments of the path is a marker.
HasMarkerSegment(path) == \E n \in 1..Len(split(path)) : split(path)[n] \in Markers

\* A marker occurs somewhere in the path.
HasMarker(path) == \E marker \in Markers : includes(path, marker)

\* C27: when the ingestion of an archive that opened appends its batch, no
\* record of the batch has the path of a directory entry or of an entry with
\* a marker segment in its path, and every entry that is no directory and
\* has no marker in its path has its record, whatever entries were dropped
\* before it.
C27_EntriesFiltered ==
    [][\A k \in InFlightSlots :
          (inv'[k].pc = "idle" /\ last'.op = "append") =>
              LET entries == inv[k].files[1].entries
              IN  /\ \A r \in 1..Len(last'.batch), n \in 1..Len(entries) :
                        last'.batch[r].name = entries[n].path =>
                            ~entries[n].dir /\ ~HasMarkerSegment(entries[n].path)
                  /\ \A n \in 1..Len(entries) :
                        (~entries[n].dir /\ ~HasMarker(entries[n].path)) =>
                            \E r \in 1..Len(last'.batch) :
                                last'.batch[r].name = entries[n].path]_vars

\* The entries loop awaits the third entry of an archive whose first entry
\* is a directory and whose second is a .DS_Store file in a folder: both were
\* passed over and nothing has been collected yet.
C27_Witness ==
    \E k \in InFlightSlots :
        LET entries == inv[k].files[1].entries
        IN  /\ inv[k].pc = "entry"
            /\ inv[k].j = 3
            /\ entries[1].dir
            /\ HasMarkerSegment(entries[2].path)
            /\ ~entries[2].dir
            /\ inv[k].list = <<>>

----------------------------------------------------------------------------
\* C28: while some ingestion invocation has started and not finished, the
\* processing flag is true, and so the file list with its store-mutating
\* controls is not on the screen.
C28_FlagWhileInFlight ==
    InFlightSlots # {} => isProcessing /\ ~Mounted(isProcessing, filesData)

----------------------------------------------------------------------------
\* C29: the append that ends an invocation takes the store as it is at that
\* moment, whatever has changed it since the invocation was called, and puts
\* the invocation's whole batch behind it, in order.
C29_AppendToCurrentStore ==
    [][\A k \in Slots :
          (Ends(k) /\ last'.op = "append") =>
              filesData' = filesData \o Expected(inv[k].files)]_vars

\* The batch of another invocation has just been appended to the store
\* while an invocation that was called before that append awaits the read
\* of its last blob: its own append is the next step it takes.
C29_Witness ==
    /\ last.op = "append"
    /\ Len(last.batch) >= 1
    /\ filesData = SubSeq(filesData, 1, last.n) \o last.batch
    /\ \E k \in InFlightSlots :
          /\ inv[k].pc = "read"
          /\ inv[k].i = Len(inv[k].files)

----------------------------------------------------------------------------
\* C30: if every awaited read or decompression settles, every invocation in
\* flight finishes; the step in which an invocation finishes, by its append
\* or by a catastrophic failure, leaves the processing flag false; so the
\* flag, once true, becomes false again.
C30_InvocationsFinish ==
    /\ \A k \in Slots : InFlight(k) ~> ~InFlight(k)
    /\ [][\A k \in Slots : Ends(k) => ~isProcessing']_vars
    /\ isProcessing ~> ~isProcessing

\* An invocation has finished by a catastrophic failure after it had awaited
\* a read, and the flag is false.
C30_Witness ==
    /\ last.op = "catastrophe"
    /\ Len(last.batch) >= 1
    /\ ~isProcessing
    /\ InFlightSlots = {}

----------------------------------------------------------------------------
\* Names and kinds of the structure view's nested object, level by level,
\* in the order in which the listing has them.
RECURSIVE ListedShape(_)
ListedShape(node) ==
    [n \in 1..Len(node) |->
        <<Listed(node)[n].name, Listed(node)[n].isFolder,
          ListedShape(Listed(node)[n].children)>>]

\* C31: for every store the structure view lists the hierarchy of the tree
\* view: one entry per node of the built tree, with the same names, the same
\* nesting and the same order of siblings, a file and a folder of one name
\* at one level being two entries in both.
C31_SameHierarchy ==
    ListedShape(RootUpTo(filesData, Len(filesData))) = ShapeOf(treeStructure(filesData))

----------------------------------------------------------------------------
\* C32: batch delete with a non-empty selection and a confirmed prompt
\* leaves the records whose indices are not selected, in their order, and an
\* empty selection; with the prompt declined, or with nothing selected, it
\* leaves the store and the selection as they are.
C32_BatchDelete ==
    [][\A confirmed \in BOOLEAN, indices \in ArraysFrom(selectedIndices) :
          DeleteSelected(confirmed, indices) =>
              IF confirmed /\ selectedIndices # {}
              THEN /\ filesData' = Survivors(filesData, selectedIndices)
                   /\ Len(filesData') = Len(filesData) - Cardinality(selectedIndices)
                   /\ selectedIndices' = {}
              ELSE UNCHANGED <<filesData, selectedIndices>>]_vars

\* Two of three records were selected and deleted: the one that was not
\* selected is the store, and nothing is selected.
C32_Witness ==
    /\ last.op = "removeMany"
    /\ last.sel
    /\ last.n = 3
    /\ Len(filesData) = 1
    /\ selectedIndices = {}
    /\ TreeShown

----------------------------------------------------------------------------
\* C33: in the tree built from the store every file node's fileIndex is an
\* index of the store, and the record at that index is named with the
\* node's path.
C33_FileNodeNamesRecord ==
    \A node \in NodesOf(treeStructure(filesData)) :
        ~node.isFolder =>
            /\ node.fileIndex \in Indices(filesData)
            /\ filesData[node.fileIndex + 1].name = node.path

----------------------------------------------------------------------------
\* The orders in which n records can stand.
Orders(n) == {f \in [1..n -> 1..n] : \A i, j \in 1..n : i # j => f[i] # f[j]}

----------------------------------------------------------------------------
\* C35: toggle(node) leaves every index that is not a leaf index of node
\* selected exactly if it was selected before, and leaves the store as it is.
C35_ToggleTouchesOwnLeaves ==
    [][\A node \in ShownNodes :
          ToggleSelection(node) =>
              /\ selectedIndices' \ LeafIndices(node) = selectedIndices \ LeafIndices(node)
              /\ \A i \in Indices(filesData) \ LeafIndices(node) :
                    i \in selectedIndices' <=> i \in selectedIndices
              /\ filesData' = filesData]_vars

\* A node whose leaves were all selected has been toggled off, and indices
\* that are no leaves of it are still selected.
C35_Witness ==
    /\ last.op = "toggle"
    /\ last.to >= 1
    /\ last.from = last.to
    /\ selectedIndices # {}
    /\ Len(filesData) = last.n

----------------------------------------------------------------------------
\* C36: the merged document is the empty string exactly when the store is
\* empty, whatever the template and the contents of the records are, and
\* the result view with its clear control is shown whenever the store is
\* non-empty and no invocation of processFiles is in flight.
C36_EmptyExactlyWhenStoreEmpty ==
    /\ mergedContent(filesData, headerTemplate) = <<>> <=> filesData = <<>>
    /\ \A template \in Templates \cup {DEFAULT_TEMPLATE} :
          mergedContent(filesData, template) = <<>> <=> Len(filesData) = 0
    /\ (Len(filesData) > 0 /\ InFlightSlots = {}) => ResultShown

\* The template has been emptied over a store of one record without
\* content: the document is the one newline of the block, and the result
\* view is shown.
C36_Witness ==
    /\ last.op = "setHeaderTemplate"
    /\ headerTemplate = <<>>
    /\ Len(filesData) = 1
    /\ filesData[1].content = <<>>
    /\ mergedContent(filesData, headerTemplate) = <<NewLine>>
    /\ ResultShown

====
